---- MODULE Spec2Model ----
(***************************************************************************)
(* Model of run_sql_analysis.py: load ecommerce_data.csv, clean it, write  *)
(* it to the SQLite store ecommerce.db, run ten fixed queries through      *)
(* run_query (display, CSV export), close the connection.                  *)
(*                                                                         *)
(* Representation.  A cell that pandas/SQLite may hold as NaN/NaT/NULL is  *)
(* an option: Null == <<>>, a present value v is <<v>>.  Text is the tuple *)
(* of its character codes (so that prefix tests and the binary collation   *)
(* of SQLite are computed, not assumed).  A timestamp is the tuple         *)
(* <<year, month, day, hour>>, which orders as its ISO text does.  Money   *)
(* is in hundredths, so ROUND(x, 2) of a sum is the sum itself and         *)
(* ROUND(AVG(x), 2) is a division rounded half away from zero.             *)
(***************************************************************************)
EXTENDS Integers, Sequences, FiniteSets, TLC

VARIABLES
    pc,         \* position of the script: load, clean, store, query, close, done, aborted
    qi,         \* number of the next run_query call, 1..10 (11 once all were made)
    csv,        \* the file ecommerce_data.csv: NoFile or [cols, rows]
    df,         \* the dataframe df: [cols, rows]
    dbfile,     \* the file ecommerce.db: NoFile or [tables |-> name -> [cols, rows]]
    conn,       \* the connection conn: "none", "open", "closed"
    exports,    \* the export file of each query: NoFile or the rows written
    returned,   \* what each run_query call of this run returned: NotRun, None or rows
    console,    \* what each run_query call of this run printed
    removed,    \* the count of removed records printed by the cleaning step
    attempts,   \* the queries whose execution was started in this run, in order
    opens,      \* how many times this run opened the connection
    closes,     \* how many times this run closed the connection
    run,        \* number of the current invocation of the script
    envFaults,  \* environment faults (I/O errors) injected so far
    tieOrder,   \* per query, how the SQL engine orders rows that tie on the ORDER BY key
    error,      \* the uncaught exception that ended this run: "none", "load", "clean", "store"
    atStart,    \* when this run started: [dbfile, exports, faults]
    prev        \* the previous run: NoRun or [csv, dbfile, exports, pc, faulted]

vars == <<pc, qi, csv, df, dbfile, conn, exports, returned, console, removed,
          attempts, opens, closes, run, envFaults, tieOrder, error, atStart, prev>>

----------------------------------------------------------------------------
(* Values *)

Null == <<>>
Some(v) == <<v>>
IsNull(x) == x = <<>>
Val(x) == x[1]

NoFile == [exists |-> FALSE]
NoRun == [ran |-> FALSE]
NotRun == [state |-> "not run"]
None == [state |-> "None"]

Min(a, b) == IF a <= b THEN a ELSE b

\* s starts with p (str.startswith)
StartsWith(s, p) == Len(s) >= Len(p) /\ SubSeq(s, 1, Len(p)) = p

\* Binary collation of text, and the order of ISO timestamps: lexicographic.
RECURSIVE SeqLess(_, _)
SeqLess(s, t) ==
    IF t = <<>> THEN FALSE
    ELSE IF s = <<>> THEN TRUE
    ELSE IF s[1] # t[1] THEN s[1] < t[1]
    ELSE SeqLess(Tail(s), Tail(t))

\* SQL order of nullable cells: NULL sorts before every value.
OptLess(a, b, Less(_, _)) ==
    IF IsNull(b) THEN FALSE
    ELSE IF IsNull(a) THEN TRUE
    ELSE Less(Val(a), Val(b))

IntLess(a, b) == a < b
OptIntLess(a, b) == OptLess(a, b, IntLess)
OptTextLess(a, b) == OptLess(a, b, SeqLess)

\* The elements of the finite set S in increasing order of the strict total order Less.
SortSet(S, Less(_, _)) ==
    LET before == [x \in S |-> Cardinality({y \in S : Less(y, x)})]
    IN  [i \in 1..Cardinality(S) |-> CHOOSE x \in S : before[x] = i - 1]

RECURSIVE SumSeq(_)
SumSeq(s) == IF s = <<>> THEN 0 ELSE s[1] + SumSeq(Tail(s))

Range(s) == {s[i] : i \in DOMAIN s}

\* n / d rounded to the nearest integer, halves away from zero (SQLite ROUND), d > 0.
RoundDiv(n, d) ==
    IF n >= 0 THEN (2 * n + d) \div (2 * d)
    ELSE 0 - ((2 * (0 - n) + d) \div (2 * d))

----------------------------------------------------------------------------
(* Calendar *)

IsLeap(y) == (y % 4 = 0 /\ y % 100 # 0) \/ y % 400 = 0

DaysInMonth(y, m) ==
    IF m = 2 THEN (IF IsLeap(y) THEN 29 ELSE 28)
    ELSE IF m \in {4, 6, 9, 11} THEN 30 ELSE 31

\* A timestamp text that pd.to_datetime parses.
ValidDate(t) ==
    /\ t[2] \in 1..12
    /\ t[3] \in 1..DaysInMonth(t[1], t[2])
    /\ t[4] \in 0..23

\* Days from 1970-01-01 to the civil date y-m-d (proleptic Gregorian, y >= 1).
DaysFromCivil(y, m, d) ==
    LET yy  == IF m <= 2 THEN y - 1 ELSE y
        era == yy \div 400
        yoe == yy - era * 400
        mp  == (m + 9) % 12
        doy == (153 * mp + 2) \div 5 + d - 1
        doe == yoe * 365 + yoe \div 4 - yoe \div 100 + doy
    IN  era * 146097 + doe - 719468

DayNames == <<"Monday", "Tuesday", "Wednesday", "Thursday", "Friday", "Saturday", "Sunday">>

\* Series.dt.day_name(): 1970-01-01 was a Thursday.
DayName(t) == DayNames[((DaysFromCivil(t[1], t[2], t[3]) + 3) % 7) + 1]

\* Series.dt.quarter
QuarterOf(t) == ((t[2] - 1) \div 3) + 1

----------------------------------------------------------------------------
(* Loader: pd.read_csv and pd.to_datetime *)

\* A table is [cols |-> the set of its column names, rows |-> the sequence of its
\* rows], a row being a function from the column names to cells.
Table(cols, rows) == [exists |-> TRUE, cols |-> cols, rows |-> rows]

\* read_csv raises when the file is missing; df['InvoiceDate'] raises when the
\* column is; to_datetime raises on a timestamp it cannot parse (an empty cell
\* becomes NaT).
LoadOk(file) ==
    /\ file.exists
    /\ "InvoiceDate" \in file.cols
    /\ \A i \in DOMAIN file.rows :
          IF IsNull(file.rows[i]["InvoiceDate"]) THEN TRUE
          ELSE ValidDate(Val(file.rows[i]["InvoiceDate"]))

Load(file) == Table(file.cols, file.rows)

----------------------------------------------------------------------------
(* Cleaner *)

CancelMarker == <<67>>          \* 'C'
NanText == <<110, 97, 110>>     \* str(NaN) = 'nan'

\* Series.astype(str) on a cell of the InvoiceNo column
AsStr(x) == IF IsNull(x) THEN NanText ELSE Val(x)

CleanerCols == {"InvoiceNo", "CustomerID", "Quantity", "UnitPrice"}
DerivedCols == {"TotalPrice", "Year", "Month", "Day", "DayOfWeek", "Quarter"}

NotCancelled(r) == ~StartsWith(AsStr(r["InvoiceNo"]), CancelMarker)
HasCustomer(r) == ~IsNull(r["CustomerID"])
\* the quantity filter with >= for >
NonNegativeQuantity(r) == ~IsNull(r["Quantity"]) /\ Val(r["Quantity"]) >= 0

\* NaN > 0 is False
PositiveQuantity(r) == ~IsNull(r["Quantity"]) /\ Val(r["Quantity"]) > 0
PositivePrice(r) == ~IsNull(r["UnitPrice"]) /\ Val(r["UnitPrice"]) > 0

\* the four successive filters
CleanRows(rows) ==
    SelectSeq(SelectSeq(SelectSeq(SelectSeq(rows, NotCancelled), HasCustomer),
                        PositiveQuantity), PositivePrice)

\* the derived columns of one row
Derive(r, cols) ==
    LET t == r["InvoiceDate"]
    IN  [c \in cols \cup DerivedCols |->
            IF c = "TotalPrice" THEN Some(Val(r["Quantity"]) * Val(r["UnitPrice"]))
            ELSE IF c = "Year" THEN (IF IsNull(t) THEN Null ELSE Some(Val(t)[1]))
            ELSE IF c = "Month" THEN (IF IsNull(t) THEN Null ELSE Some(Val(t)[2]))
            ELSE IF c = "Day" THEN (IF IsNull(t) THEN Null ELSE Some(Val(t)[3]))
            ELSE IF c = "DayOfWeek" THEN (IF IsNull(t) THEN Null ELSE Some(DayName(Val(t))))
            ELSE IF c = "Quarter" THEN (IF IsNull(t) THEN Null ELSE Some(QuarterOf(Val(t))))
            ELSE r[c]]

\* the indexing df['InvoiceNo'], ... raises KeyError when a column is missing
CleanOk(t) == CleanerCols \subseteq t.cols

Clean(t) ==
    LET kept == CleanRows(t.rows)
    IN  Table(t.cols \cup DerivedCols, [i \in DOMAIN kept |-> Derive(kept[i], t.cols)])

----------------------------------------------------------------------------
(* SQL: aggregates, grouping, ordering *)

\* the non-NULL values of column col in the rows g
ColVals(g, col) ==
    LET nn == SelectSeq(g, LAMBDA r : ~IsNull(r[col]))
    IN  [i \in DOMAIN nn |-> Val(nn[i][col])]

\* COUNT(DISTINCT col): NULLs are not counted
CountDistinct(g, col) == Cardinality({g[i][col] : i \in DOMAIN g} \ {Null})

\* SUM(col), also ROUND(SUM(col), 2) of money in hundredths: NULL over no value
Sum(g, col) ==
    LET v == ColVals(g, col) IN IF v = <<>> THEN Null ELSE Some(SumSeq(v))

\* ROUND(AVG(col), 2) of money in hundredths: NULL over no value
Avg2(g, col) ==
    LET v == ColVals(g, col)
    IN  IF v = <<>> THEN Null ELSE Some(RoundDiv(SumSeq(v), Len(v)))

\* MAX(col) of timestamps: NULL over no value
MaxDate(g, col) ==
    LET v == Range(ColVals(g, col))
    IN  IF v = {} THEN Null ELSE Some(CHOOSE x \in v : \A y \in v : ~SeqLess(x, y))

\* GROUP BY Key: one Row(key, rows of the group) per key, in increasing key order
GroupBy(rows, Key(_), Less(_, _), Row(_, _)) ==
    LET ks == SortSet({Key(rows[i]) : i \in DOMAIN rows}, Less)
    IN  [i \in DOMAIN ks |-> Row(ks[i], SelectSeq(rows, LAMBDA r : Key(r) = ks[i]))]

\* ORDER BY Key: rows that tie keep the order of s ("asc") or reverse it ("desc"),
\* as the engine's sorter decides (SQL leaves it open).
OrderBy(s, Key(_), Less(_, _), ties) ==
    LET Before(i, j) ==
            \/ Less(Key(s[i]), Key(s[j]))
            \/ /\ Key(s[i]) = Key(s[j])
               /\ IF ties = "asc" THEN i < j ELSE i > j
        idx == SortSet(DOMAIN s, Before)
    IN  [k \in DOMAIN s |-> s[idx[k]]]

OptIntGreater(a, b) == OptIntLess(b, a)

\* ORDER BY Key DESC on a nullable number
OrderByDesc(s, Key(_), ties) == OrderBy(s, Key, OptIntGreater, ties)

\* LIMIT n
Limit(s, n) == SubSeq(s, 1, Min(Len(s), n))

\* the order of two-column keys (a, b) of nullable integers
PairLess(a, b) == OptIntLess(a[1], b[1]) \/ (a[1] = b[1] /\ OptIntLess(a[2], b[2]))

\* the order of two-column keys of nullable texts
TextPairLess(a, b) == OptTextLess(a[1], b[1]) \/ (a[1] = b[1] /\ OptTextLess(a[2], b[2]))

----------------------------------------------------------------------------
(* The ten queries.  Each maps the transactions table to its result rows. *)

\* Query 1: business overview (one row, also over an empty table)
Query1(t, ties) ==
    << [Total_Orders |-> CountDistinct(t.rows, "InvoiceNo"),
        Unique_Customers |-> CountDistinct(t.rows, "CustomerID"),
        Total_Revenue |-> Sum(t.rows, "TotalPrice"),
        Avg_Transaction_Value |-> Avg2(t.rows, "TotalPrice"),
        Total_Units_Sold |-> Sum(t.rows, "Quantity")] >>

\* Query 2: monthly trends
Query2(t, ties) ==
    GroupBy(t.rows, LAMBDA r : <<r["Year"], r["Month"]>>, PairLess,
            LAMBDA k, g : [Year |-> k[1], Month |-> k[2],
                           Monthly_Revenue |-> Sum(g, "TotalPrice"),
                           Orders |-> CountDistinct(g, "InvoiceNo"),
                           Unique_Customers |-> CountDistinct(g, "CustomerID"),
                           Avg_Transaction_Value |-> Avg2(g, "TotalPrice")])

TopProducts == 20

\* Query 3: top products by revenue
Query3(t, ties) ==
    Limit(OrderByDesc(
            GroupBy(t.rows, LAMBDA r : r["Description"], OptTextLess,
                    LAMBDA k, g : [Product |-> k,
                                   Orders |-> CountDistinct(g, "InvoiceNo"),
                                   Units_Sold |-> Sum(g, "Quantity"),
                                   Total_Revenue |-> Sum(g, "TotalPrice"),
                                   Avg_Price |-> Avg2(g, "UnitPrice")]),
            LAMBDA x : x.Total_Revenue, ties),
          TopProducts)

TopCustomers == 30

\* Query 4: top customers by spend
Query4(t, ties) ==
    Limit(OrderByDesc(
            GroupBy(t.rows, LAMBDA r : r["CustomerID"], OptIntLess,
                    LAMBDA k, g : [CustomerID |-> k,
                                   Total_Orders |-> CountDistinct(g, "InvoiceNo"),
                                   Units_Purchased |-> Sum(g, "Quantity"),
                                   Total_Spent |-> Sum(g, "TotalPrice"),
                                   Avg_Order_Value |-> Avg2(g, "TotalPrice")]),
            LAMBDA x : x.Total_Spent, ties),
          TopCustomers)

\* Query 5: country performance
Query5(t, ties) ==
    OrderByDesc(
        GroupBy(t.rows, LAMBDA r : r["Country"], OptTextLess,
                LAMBDA k, g : [Country |-> k,
                               Customers |-> CountDistinct(g, "CustomerID"),
                               Orders |-> CountDistinct(g, "InvoiceNo"),
                               Revenue |-> Sum(g, "TotalPrice"),
                               Avg_Transaction |-> Avg2(g, "TotalPrice")]),
        LAMBDA x : x.Revenue, ties)

\* CASE DayOfWeek WHEN 'Monday' THEN 1 ... WHEN 'Sunday' THEN 7 END
DayOrdinal(d) ==
    IF IsNull(d) THEN Null
    ELSE Some(CHOOSE i \in DOMAIN DayNames : DayNames[i] = Val(d))

\* Query 6: day of week analysis (the key is a nullable day name)
Query6(t, ties) ==
    GroupBy(t.rows, LAMBDA r : r["DayOfWeek"],
            LAMBDA a, b : OptIntLess(DayOrdinal(a), DayOrdinal(b)),
            LAMBDA k, g : [DayOfWeek |-> k,
                           Orders |-> CountDistinct(g, "InvoiceNo"),
                           Revenue |-> Sum(g, "TotalPrice"),
                           Avg_Transaction |-> Avg2(g, "TotalPrice")])

\* Query 7: quarterly performance
Query7(t, ties) ==
    GroupBy(t.rows, LAMBDA r : <<r["Year"], r["Quarter"]>>, PairLess,
            LAMBDA k, g : [Year |-> k[1], Quarter |-> k[2],
                           Orders |-> CountDistinct(g, "InvoiceNo"),
                           Customers |-> CountDistinct(g, "CustomerID"),
                           Revenue |-> Sum(g, "TotalPrice")])

\* the CASE over Order_Count, as the ordinal the ORDER BY gives its label:
\* 1 '1 Order', 2 '2-5 Orders', 3 '6-10 Orders', 4 '11-20 Orders', 5 '20+ Orders'
FrequencyOrdinal(n) ==
    IF n = 1 THEN 1
    ELSE IF n >= 2 /\ n <= 5 THEN 2
    ELSE IF n >= 6 /\ n <= 10 THEN 3
    ELSE IF n >= 11 /\ n <= 20 THEN 4
    ELSE 5

FrequencyLabels == <<"1 Order", "2-5 Orders", "6-10 Orders", "11-20 Orders", "20+ Orders">>

\* the subquery customer_stats of query 8
CustomerStats(t) ==
    GroupBy(t.rows, LAMBDA r : r["CustomerID"], OptIntLess,
            LAMBDA k, g : [CustomerID |-> k,
                           Order_Count |-> CountDistinct(g, "InvoiceNo"),
                           Total_Revenue |-> Sum(g, "TotalPrice")])

\* Query 8: customer purchase frequency
Query8(t, ties) ==
    GroupBy(CustomerStats(t), LAMBDA c : FrequencyOrdinal(c.Order_Count), IntLess,
            LAMBDA k, g : [Purchase_Frequency |-> FrequencyLabels[k],
                           Number_of_Customers |-> Len(g),
                           Total_Revenue |-> Sum(g, "Total_Revenue"),
                           Avg_Customer_Value |-> Avg2(g, "Total_Revenue")])

MinTogether == 10
TopPairs == 20

\* ProductPairs with COUNT(*) for COUNT(DISTINCT t1.InvoiceNo)
ProductPairsCountAll(t) ==
    LET rows == t.rows
        joined == {p \in (DOMAIN rows) \X (DOMAIN rows) :
                      /\ ~IsNull(rows[p[1]]["InvoiceNo"])
                      /\ rows[p[1]]["InvoiceNo"] = rows[p[2]]["InvoiceNo"]
                      /\ ~IsNull(rows[p[1]]["Description"])
                      /\ ~IsNull(rows[p[2]]["Description"])
                      /\ SeqLess(Val(rows[p[1]]["Description"]), Val(rows[p[2]]["Description"]))}
        KeyOf(p) == <<rows[p[1]]["Description"], rows[p[2]]["Description"]>>
        keys == SortSet({KeyOf(p) : p \in joined}, TextPairLess)
    IN  [i \in DOMAIN keys |->
            [Product_A |-> keys[i][1],
             Product_B |-> keys[i][2],
             Times_Bought_Together |-> Cardinality({q \in joined : KeyOf(q) = keys[i]})]]

\* the CTE ProductPairs of query 9: the self-join on the invoice, restricted to
\* t1.Description < t2.Description, grouped by the pair of descriptions.
\* (NULL = NULL and NULL < x are not true: such rows join nothing.)
ProductPairs(t) ==
    LET rows == t.rows
        joined == {p \in (DOMAIN rows) \X (DOMAIN rows) :
                      /\ ~IsNull(rows[p[1]]["InvoiceNo"])
                      /\ rows[p[1]]["InvoiceNo"] = rows[p[2]]["InvoiceNo"]
                      /\ ~IsNull(rows[p[1]]["Description"])
                      /\ ~IsNull(rows[p[2]]["Description"])
                      /\ SeqLess(Val(rows[p[1]]["Description"]), Val(rows[p[2]]["Description"]))}
        KeyOf(p) == <<rows[p[1]]["Description"], rows[p[2]]["Description"]>>
        keys == SortSet({KeyOf(p) : p \in joined}, TextPairLess)
    IN  [i \in DOMAIN keys |->
            [Product_A |-> keys[i][1],
             Product_B |-> keys[i][2],
             Times_Bought_Together |->
                Cardinality({rows[p[1]]["InvoiceNo"] : p \in {q \in joined : KeyOf(q) = keys[i]}})]]

\* Query 9: product affinity
Query9(t, ties) ==
    Limit(OrderByDesc(
            SelectSeq(ProductPairs(t), LAMBDA x : x.Times_Bought_Together >= MinTogether),
            LAMBDA x : Some(x.Times_Bought_Together), ties),
          TopPairs)

ChurnRef == <<2024, 12, 31, 0>>     \* JULIANDAY('2024-12-31')
ActiveDays == 30
AtRiskDays == 60
ChurningDays == 90

\* ROUND(JULIANDAY('2024-12-31') - JULIANDAY(t), 0): the difference in days, a
\* multiple of 1/24, rounded half away from zero; NULL for a NULL timestamp
DaysSince(t) ==
    IF IsNull(t) THEN Null
    ELSE LET d == Val(t)
             hours == (DaysFromCivil(ChurnRef[1], ChurnRef[2], ChurnRef[3])
                       - DaysFromCivil(d[1], d[2], d[3])) * 24 + ChurnRef[4] - d[4]
         IN  Some(RoundDiv(hours, 24))

\* the CTE LastPurchase of query 10
LastPurchase(t) ==
    GroupBy(t.rows, LAMBDA r : r["CustomerID"], OptIntLess,
            LAMBDA k, g : [CustomerID |-> k,
                           Last_Purchase_Date |-> MaxDate(g, "InvoiceDate"),
                           Days_Since_Purchase |-> DaysSince(MaxDate(g, "InvoiceDate")),
                           Total_Orders |-> CountDistinct(g, "InvoiceNo"),
                           Total_Revenue |-> Sum(g, "TotalPrice")])

\* the CASE over Days_Since_Purchase with < for <=
StatusOrdinalStrict(d) ==
    IF ~IsNull(d) /\ Val(d) < ActiveDays THEN 1
    ELSE IF ~IsNull(d) /\ Val(d) < AtRiskDays THEN 2
    ELSE IF ~IsNull(d) /\ Val(d) < ChurningDays THEN 3
    ELSE 4

\* the CASE over Days_Since_Purchase, as the ordinal the ORDER BY gives its label
\* (a comparison with NULL is not true, so NULL falls to the ELSE):
\* 1 'Active', 2 'At Risk', 3 'Churning', 4 'Churned'
StatusOrdinal(d) ==
    IF ~IsNull(d) /\ Val(d) <= ActiveDays THEN 1
    ELSE IF ~IsNull(d) /\ Val(d) <= AtRiskDays THEN 2
    ELSE IF ~IsNull(d) /\ Val(d) <= ChurningDays THEN 3
    ELSE 4

StatusLabels == <<"Active", "At Risk", "Churning", "Churned">>

\* Query 10: customer churn analysis
Query10(t, ties) ==
    GroupBy(LastPurchase(t), LAMBDA c : StatusOrdinal(c.Days_Since_Purchase), IntLess,
            LAMBDA k, g : [Customer_Status |-> StatusLabels[k],
                           Number_of_Customers |-> Len(g),
                           Total_Revenue |-> Sum(g, "Total_Revenue"),
                           Avg_Customer_Value |-> Avg2(g, "Total_Revenue")])

----------------------------------------------------------------------------
(* The report: the ten run_query calls *)

NumQueries == 10
Queries == 1..NumQueries

\* the name argument of each call, as character codes
QueryNames ==
    <<
       \* "1. BUSINESS OVERVIEW"
       <<49, 46, 32, 66, 85, 83, 73, 78, 69, 83, 83, 32, 79, 86, 69, 82, 86, 73, 69, 87>>,
       \* "2. MONTHLY TRENDS"
       <<50, 46, 32, 77, 79, 78, 84, 72, 76, 89, 32, 84, 82, 69, 78, 68, 83>>,
       \* "3. TOP 20 PRODUCTS"
       <<51, 46, 32, 84, 79, 80, 32, 50, 48, 32, 80, 82, 79, 68, 85, 67, 84, 83>>,
       \* "4. TOP 30 CUSTOMERS"
       <<52, 46, 32, 84, 79, 80, 32, 51, 48, 32, 67, 85, 83, 84, 79, 77, 69, 82, 83>>,
       \* "5. GEOGRAPHIC PERFORMANCE"
       <<53, 46, 32, 71, 69, 79, 71, 82, 65, 80, 72, 73, 67, 32, 80, 69, 82, 70, 79, 82, 77, 65, 78, 67, 69>>,
       \* "6. DAY OF WEEK ANALYSIS"
       <<54, 46, 32, 68, 65, 89, 32, 79, 70, 32, 87, 69, 69, 75, 32, 65, 78, 65, 76, 89, 83, 73, 83>>,
       \* "7. QUARTERLY PERFORMANCE"
       <<55, 46, 32, 81, 85, 65, 82, 84, 69, 82, 76, 89, 32, 80, 69, 82, 70, 79, 82, 77, 65, 78, 67, 69>>,
       \* "8. CUSTOMER PURCHASE FREQUENCY"
       <<56, 46, 32, 67, 85, 83, 84, 79, 77, 69, 82, 32, 80, 85, 82, 67, 72, 65, 83, 69, 32, 70, 82, 69, 81, 85, 69, 78, 67, 89>>,
       \* "9. PRODUCT AFFINITY (Top 20)"
       <<57, 46, 32, 80, 82, 79, 68, 85, 67, 84, 32, 65, 70, 70, 73, 78, 73, 84, 89, 32, 40, 84, 111, 112, 32, 50, 48, 41>>,
       \* "10. CUSTOMER CHURN ANALYSIS"
       <<49, 48, 46, 32, 67, 85, 83, 84, 79, 77, 69, 82, 32, 67, 72, 85, 82, 78, 32, 65, 78, 65, 76, 89, 83, 73, 83>>
    >>

DefaultLimit == 20
CustomerLimit == 30

\* the limit argument of each call
QueryLimit(q) == IF q = 4 THEN CustomerLimit ELSE DefaultLimit

\* the columns of transactions each query names
QueryCols(q) ==
    CASE q = 1 -> {"InvoiceNo", "CustomerID", "TotalPrice", "Quantity"}
      [] q = 2 -> {"Year", "Month", "TotalPrice", "InvoiceNo", "CustomerID"}
      [] q = 3 -> {"Description", "InvoiceNo", "Quantity", "TotalPrice", "UnitPrice"}
      [] q = 4 -> {"CustomerID", "InvoiceNo", "Quantity", "TotalPrice"}
      [] q = 5 -> {"Country", "CustomerID", "InvoiceNo", "TotalPrice"}
      [] q = 6 -> {"DayOfWeek", "InvoiceNo", "TotalPrice"}
      [] q = 7 -> {"Year", "Quarter", "InvoiceNo", "CustomerID", "TotalPrice"}
      [] q = 8 -> {"CustomerID", "InvoiceNo", "TotalPrice"}
      [] q = 9 -> {"Description", "InvoiceNo"}
      [] q = 10 -> {"CustomerID", "InvoiceDate", "InvoiceNo", "TotalPrice"}

\* the result of query q over table t
QueryResult(q, t, ties) ==
    CASE q = 1 -> Query1(t, ties)
      [] q = 2 -> Query2(t, ties)
      [] q = 3 -> Query3(t, ties)
      [] q = 4 -> Query4(t, ties)
      [] q = 5 -> Query5(t, ties)
      [] q = 6 -> Query6(t, ties)
      [] q = 7 -> Query7(t, ties)
      [] q = 8 -> Query8(t, ties)
      [] q = 9 -> Query9(t, ties)
      [] q = 10 -> Query10(t, ties)

\* str.lower
Lower(s) == [i \in DOMAIN s |-> IF s[i] >= 65 /\ s[i] <= 90 THEN s[i] + 32 ELSE s[i]]

\* str.replace(a, b) for single characters
Replace(s, a, b) == [i \in DOMAIN s |-> IF s[i] = a THEN b ELSE s[i]]

\* f"query_{name.lower().replace(' ', '_').replace('/', '_')}.csv"
CsvFilename(name) ==
    <<113, 117, 101, 114, 121, 95>> \o Replace(Replace(Lower(name), 32, 95), 47, 95)
        \o <<46, 99, 115, 118>>

ExportFiles == {CsvFilename(QueryNames[q]) : q \in Queries}

\* the display with >= for >
DisplayOffByOne(result, limit) ==
    IF Len(result) >= limit
    THEN [notice |-> Some(Len(result)), rows |-> SubSeq(result, 1, limit)]
    ELSE [notice |-> Null, rows |-> result]

\* what run_query prints of a result: all of it, or its head with the total
Display(result, limit) ==
    IF Len(result) > limit
    THEN [notice |-> Some(Len(result)), rows |-> SubSeq(result, 1, limit)]
    ELSE [notice |-> Null, rows |-> result]

----------------------------------------------------------------------------
(* Files *)

EmptyTable == Table({}, <<>>)

\* os.remove(db_file) when os.path.exists(db_file)
RemoveStore(file) == NoFile

\* sqlite3.connect(db_file): opens the store, creating an empty one when absent
Connect(file) == IF file.exists THEN file ELSE [exists |-> TRUE, tables |-> <<>>]

\* DataFrame.to_sql(name, conn, if_exists='replace', index=False): drops the
\* table of that name when the store has one, and creates it from the frame
ToSql(file, name, t) ==
    [exists |-> TRUE,
     tables |-> [n \in (DOMAIN file.tables) \cup {name} |->
                    IF n = name THEN Table(t.cols, t.rows) ELSE file.tables[n]]]

\* the Store Builder without os.remove and with if_exists='append'
BuildStoreAppend(file, t) ==
    LET c == Connect(file)
    IN  IF "transactions" \in DOMAIN c.tables
        THEN [c EXCEPT !.tables["transactions"].rows = @ \o t.rows]
        ELSE ToSql(c, "transactions", t)

\* lines 40-45: the store file after the Store Builder
BuildStore(file, t) ==
    ToSql(Connect(IF file.exists THEN RemoveStore(file) ELSE file), "transactions", t)

\* pd.read_sql_query(query, conn) raises when the connection is closed, the
\* table is missing, or the query names a column the table lacks
QueryOk(q, file, c) ==
    /\ c = "open"
    /\ file.exists
    /\ "transactions" \in DOMAIN file.tables
    /\ QueryCols(q) \subseteq file.tables["transactions"].cols

\* result.to_csv(csv_filename, index=False): the whole result
CsvFile(result) == [exists |-> TRUE, rows |-> result]

----------------------------------------------------------------------------
(* The script, step by step *)

MaxRuns == 2
MaxEnvFaults == 1

\* lines 17-18, the file is read and its timestamps parsed
Loader ==
    /\ pc = "load"
    /\ LoadOk(csv)
    /\ df' = Load(csv)
    /\ pc' = "clean"
    /\ UNCHANGED <<qi, csv, dbfile, conn, exports, returned, console, removed,
                   attempts, opens, closes, run, envFaults, tieOrder, error, atStart, prev>>

\* lines 17-18 raise and the exception is swallowed: the script goes on
LoaderFailsCaught ==
    /\ pc = "load"
    /\ ~LoadOk(csv)
    /\ pc' = "clean"
    /\ error' = "load"
    /\ UNCHANGED <<qi, csv, df, dbfile, conn, exports, returned, console, removed,
                   attempts, opens, closes, run, envFaults, tieOrder, atStart, prev>>

\* lines 17-18 raise: the exception is not caught, the process ends
LoaderFails ==
    /\ pc = "load"
    /\ ~LoadOk(csv)
    /\ pc' = "aborted"
    /\ error' = "load"
    /\ UNCHANGED <<qi, csv, df, dbfile, conn, exports, returned, console, removed,
                   attempts, opens, closes, run, envFaults, tieOrder, atStart, prev>>

\* lines 22-36, the filters, the derived columns, the printed count
Cleaner ==
    /\ pc = "clean"
    /\ CleanOk(df)
    /\ df' = Clean(df)
    /\ removed' = Len(df.rows) - Len(df'.rows)
    /\ pc' = "store"
    /\ UNCHANGED <<qi, csv, dbfile, conn, exports, returned, console,
                   attempts, opens, closes, run, envFaults, tieOrder, error, atStart, prev>>

\* lines 23-26 raise KeyError on a missing column: not caught, the process ends
CleanerFails ==
    /\ pc = "clean"
    /\ ~CleanOk(df)
    /\ pc' = "aborted"
    /\ error' = "clean"
    /\ UNCHANGED <<qi, csv, df, dbfile, conn, exports, returned, console, removed,
                   attempts, opens, closes, run, envFaults, tieOrder, atStart, prev>>

\* lines 40-46, the old store is removed, a new one connected and loaded
StoreBuilder ==
    /\ pc = "store"
    /\ dbfile' = BuildStore(dbfile, df)
    /\ conn' = "open"
    /\ opens' = opens + 1
    /\ pc' = "query"
    /\ UNCHANGED <<qi, csv, df, exports, returned, console, removed,
                   attempts, closes, run, envFaults, tieOrder, error, atStart, prev>>

\* lines 40-45 raise (the store location is unwritable): at os.remove, the old
\* store stays; at sqlite3.connect, it is gone; at to_sql, the new store is
\* connected and empty.  Not caught, the process ends.
StoreBuilderFails ==
    /\ pc = "store"
    /\ envFaults < MaxEnvFaults
    /\ \E at \in {"remove", "connect", "to_sql"} :
          /\ at = "remove" => dbfile.exists
          /\ dbfile' = IF at = "remove" THEN dbfile
                       ELSE IF at = "connect" THEN NoFile
                       ELSE Connect(NoFile)
          /\ conn' = IF at = "to_sql" THEN "open" ELSE conn
          /\ opens' = IF at = "to_sql" THEN opens + 1 ELSE opens
    /\ envFaults' = envFaults + 1
    /\ pc' = "aborted"
    /\ error' = "store"
    /\ UNCHANGED <<qi, csv, df, exports, returned, console, removed,
                   attempts, closes, run, tieOrder, atStart, prev>>

\* run_query without its try/except: a query that raises ends the process
RunQueryStepUncaught(fault) ==
    LET name == QueryNames[qi]
        ok == ~fault /\ QueryOk(qi, dbfile, conn)
        result == QueryResult(qi, dbfile.tables["transactions"], tieOrder[qi])
    IN  /\ attempts' = Append(attempts, qi)
        /\ IF ok
           THEN /\ console' = [console EXCEPT ![qi] =
                        [kind |-> "result",
                         shown |-> Display(result, QueryLimit(qi)),
                         saved |-> CsvFilename(name)]]
                /\ exports' = [exports EXCEPT ![CsvFilename(name)] = CsvFile(result)]
                /\ returned' = [returned EXCEPT ![qi] = [state |-> "rows", rows |-> result]]
                /\ qi' = qi + 1
                /\ pc' = IF qi = NumQueries THEN "close" ELSE "query"
           ELSE /\ console' = [console EXCEPT ![qi] = [kind |-> "error"]]
                /\ exports' = exports
                /\ returned' = returned
                /\ qi' = qi
                /\ pc' = "aborted"

\* run_query with to_csv(mode='a'): the result is added to the file there is
RunQueryStepAppend(fault) ==
    LET name == QueryNames[qi]
        ok == ~fault /\ QueryOk(qi, dbfile, conn)
        result == QueryResult(qi, dbfile.tables["transactions"], tieOrder[qi])
        old == exports[CsvFilename(name)]
    IN  /\ attempts' = Append(attempts, qi)
        /\ IF ok
           THEN /\ console' = [console EXCEPT ![qi] =
                        [kind |-> "result",
                         shown |-> Display(result, QueryLimit(qi)),
                         saved |-> CsvFilename(name)]]
                /\ exports' = [exports EXCEPT ![CsvFilename(name)] =
                        IF old.exists THEN CsvFile(old.rows \o result) ELSE CsvFile(result)]
                /\ returned' = [returned EXCEPT ![qi] = [state |-> "rows", rows |-> result]]
           ELSE /\ console' = [console EXCEPT ![qi] = [kind |-> "error"]]
                /\ exports' = exports
                /\ returned' = [returned EXCEPT ![qi] = None]
        /\ qi' = qi + 1
        /\ pc' = IF qi = NumQueries THEN "close" ELSE "query"

\* run_query(name, query, limit), lines 49-68, for the call number qi: the
\* query raises (caught: the error is printed, None returned), or its result is
\* printed, exported and returned.  fault: the engine raises for a reason
\* outside the query and the table (an I/O error).
RunQueryStep(fault) ==
    LET name == QueryNames[qi]
        ok == ~fault /\ QueryOk(qi, dbfile, conn)
        result == QueryResult(qi, dbfile.tables["transactions"], tieOrder[qi])
    IN  /\ attempts' = Append(attempts, qi)
        /\ IF ok
           THEN /\ console' = [console EXCEPT ![qi] =
                        [kind |-> "result",
                         shown |-> Display(result, QueryLimit(qi)),
                         saved |-> CsvFilename(name)]]
                /\ exports' = [exports EXCEPT ![CsvFilename(name)] = CsvFile(result)]
                /\ returned' = [returned EXCEPT ![qi] = [state |-> "rows", rows |-> result]]
           ELSE /\ console' = [console EXCEPT ![qi] = [kind |-> "error"]]
                /\ exports' = exports
                /\ returned' = [returned EXCEPT ![qi] = None]
        /\ qi' = qi + 1
        /\ pc' = IF qi = NumQueries THEN "close" ELSE "query"

RunQuery ==
    /\ pc = "query"
    /\ RunQueryStep(FALSE)
    /\ UNCHANGED <<csv, df, dbfile, conn, removed, opens, closes, run, envFaults,
                   tieOrder, error, atStart, prev>>

RunQueryFault ==
    /\ pc = "query"
    /\ envFaults < MaxEnvFaults
    /\ RunQueryStep(TRUE)
    /\ envFaults' = envFaults + 1
    /\ UNCHANGED <<csv, df, dbfile, conn, removed, opens, closes, run,
                   tieOrder, error, atStart, prev>>

\* the script ends without conn.close()
CloseMissing ==
    /\ pc = "close"
    /\ pc' = "done"
    /\ UNCHANGED <<qi, csv, df, dbfile, conn, exports, returned, console, removed,
                   attempts, opens, closes, run, envFaults, tieOrder, error, atStart, prev>>

\* line 284
Close ==
    /\ pc = "close"
    /\ conn' = "closed"
    /\ closes' = closes + 1
    /\ pc' = "done"
    /\ UNCHANGED <<qi, csv, df, dbfile, exports, returned, console, removed,
                   attempts, opens, run, envFaults, tieOrder, error, atStart, prev>>

\* the script is started again in the same directory: a new process, the
\* files as the last run left them, the input file possibly another one
Rerun(inputs) ==
    /\ pc \in {"done", "aborted"}
    /\ run < MaxRuns
    /\ \E f \in inputs : csv' = f
    /\ pc' = "load"
    /\ qi' = 1
    /\ df' = EmptyTable
    /\ conn' = "none"
    /\ returned' = [q \in Queries |-> NotRun]
    /\ console' = [q \in Queries |-> NotRun]
    /\ removed' = 0
    /\ attempts' = <<>>
    /\ opens' = 0
    /\ closes' = 0
    /\ error' = "none"
    /\ run' = run + 1
    /\ atStart' = [dbfile |-> dbfile, exports |-> exports, faults |-> envFaults]
    /\ prev' = [ran |-> TRUE, csv |-> csv, dbfile |-> dbfile, exports |-> exports,
                pc |-> pc, faulted |-> envFaults # atStart.faults]
    /\ UNCHANGED <<dbfile, exports, envFaults, tieOrder>>

----------------------------------------------------------------------------
(* Inputs *)

AllCols == {"InvoiceNo", "StockCode", "Description", "Quantity", "InvoiceDate",
            "UnitPrice", "CustomerID", "Country"}

\* one line of ecommerce_data.csv
Row(inv, desc, qty, date, price, cust, country) ==
    [InvoiceNo |-> inv, StockCode |-> Some(<<83>>), Description |-> desc,
     Quantity |-> qty, InvoiceDate |-> date, UnitPrice |-> price,
     CustomerID |-> cust, Country |-> country]

\* the file without some of its columns
Without(t, cols) ==
    Table(t.cols \ cols, [i \in DOMAIN t.rows |-> [c \in t.cols \ cols |-> t.rows[i][c]]])

\* the decimal text of a natural number
RECURSIVE Digits(_)
Digits(n) == IF n < 10 THEN <<48 + n>> ELSE Digits(n \div 10) \o <<48 + (n % 10)>>

TxtA == Some(<<65>>)
TxtB == Some(<<66>>)
TxtAB == Some(<<65, 66>>)
TxtUK == Some(<<85, 75>>)
TxtFR == Some(<<70, 82>>)
Noon == Some(<<2024, 12, 1, 12>>)

\* how the engine orders ties: the sorter of SQLite 3.40 (reversed after a
\* GROUP BY with COUNT(DISTINCT), kept after the CTE of query 9), or the opposite
SqliteTies == [q \in Queries |-> IF q = 9 THEN "asc" ELSE "desc"]
TieOrders == {SqliteTies, [q \in Queries |-> IF q = 9 THEN "desc" ELSE "asc"]}

\* two lines of one invoice, a cancellation, a line without customer
SomeRows ==
    <<Row(Some(<<49>>), TxtA, Some(2), Noon, Some(250), Some(1), TxtUK),
      Row(Some(<<49>>), TxtB, Some(1), Noon, Some(100), Some(1), TxtUK),
      Row(Some(<<67, 50>>), TxtA, Some(0 - 2), Noon, Some(250), Some(1), TxtUK),
      Row(Some(<<51>>), TxtA, Some(1), Noon, Some(250), Null, TxtFR)>>

OtherRows ==
    <<Row(Some(<<52>>), TxtAB, Some(3), Some(<<2024, 11, 30, 0>>), Some(199), Some(2), TxtFR),
      Row(Some(<<53>>), TxtA, Some(1), Null, Some(0), Some(2), TxtFR)>>

\* a timestamp to_datetime cannot parse (month 13)
BadDateRows ==
    <<Row(Some(<<49>>), TxtA, Some(2), Some(<<2024, 13, 1, 0>>), Some(250), Some(1), TxtUK)>>

\* the input files of the pipeline runs: a full file, one of other rows that
\* lacks two columns the queries name, one that lacks a column the cleaning
\* names, one with a malformed timestamp, and no file
PipelineInputs ==
    {Table(AllCols, SomeRows),
     Without(Table(AllCols, OtherRows), {"Description", "Country"}),
     Without(Table(AllCols, SomeRows), {"Quantity"}),
     Table(AllCols, BadDateRows),
     NoFile}

InitWith(inputs, orders) ==
    /\ pc = "load"
    /\ qi = 1
    /\ csv \in inputs
    /\ df = EmptyTable
    /\ dbfile = NoFile
    /\ conn = "none"
    /\ exports = [f \in ExportFiles |-> NoFile]
    /\ returned = [q \in Queries |-> NotRun]
    /\ console = [q \in Queries |-> NotRun]
    /\ removed = 0
    /\ attempts = <<>>
    /\ opens = 0
    /\ closes = 0
    /\ run = 1
    /\ envFaults = 0
    /\ tieOrder \in orders
    /\ error = "none"
    /\ atStart = [dbfile |-> NoFile, exports |-> [f \in ExportFiles |-> NoFile], faults |-> 0]
    /\ prev = NoRun

Init == InitWith(PipelineInputs, TieOrders)

Next ==
    \/ Loader
    \/ LoaderFails
    \/ Cleaner
    \/ CleanerFails
    \/ StoreBuilder
    \/ StoreBuilderFails
    \/ RunQuery
    \/ RunQueryFault
    \/ Close
    \/ Rerun(PipelineInputs)

Spec == Init /\ [][Next]_vars

----------------------------------------------------------------------------
(* Single runs over families of input files *)

MaxRows == 2

\* all files of at most MaxRows lines taken from the set rows
FilesOver(rows) == {Table(AllCols, r) : r \in UNION {[1..n -> rows] : n \in 0..MaxRows}}

\* lines that differ from a kept line in the cells the cleaning reads
CleanerLines ==
    {Row(inv, TxtA, Some(2), Noon, Some(250), Some(1), TxtUK) :
        inv \in {Some(<<49>>), Some(<<67, 49>>), Some(<<99, 49>>), Some(<<49, 67>>), Null}}
    \cup {Row(Some(<<50>>), TxtB, qty, Noon, Some(100), Some(2), TxtFR) :
            qty \in {Null, Some(0), Some(0 - 1)}}
    \cup {Row(Some(<<49>>), TxtB, Some(1), Noon, price, Some(1), TxtUK) :
            price \in {Null, Some(0), Some(0 - 5)}}
    \cup {Row(Some(<<49>>), Null, Some(1), Null, Some(100), Null, Null)}

\* timestamps a known number of whole days before 2024-12-31 00:00
WholeDays ==
    {[date |-> <<2024, 12, 1, 0>>, days |-> 30],
     [date |-> <<2024, 11, 30, 0>>, days |-> 31],
     [date |-> <<2024, 11, 1, 0>>, days |-> 60],
     [date |-> <<2024, 10, 31, 0>>, days |-> 61],
     [date |-> <<2024, 10, 2, 0>>, days |-> 90],
     [date |-> <<2024, 10, 1, 0>>, days |-> 91]}

\* purchases of two customers at those timestamps, half a day off them, after
\* the reference date, and without timestamp
ChurnLines ==
    {Row(Some(<<49>>), TxtA, Some(1), Some(w.date), Some(100), Some(1), TxtUK) : w \in WholeDays}
    \cup {Row(Some(<<50>>), TxtA, Some(1), date, Some(100), Some(1), TxtUK) :
            date \in {Some(<<2024, 11, 30, 12>>), Some(<<2025, 1, 1, 0>>), Null}}
    \cup {Row(Some(<<51>>), TxtA, Some(1), Some(<<2024, 10, 1, 0>>), Some(250), Some(2), TxtUK)}

\* the products of one invoice, one line each
Baskets ==
    {<<TxtA, TxtB>>,
     <<TxtA, TxtB, TxtB>>,
     <<TxtB, TxtAB, TxtA>>,
     <<TxtA, Null>>,
     <<Some(<<71>>), Some(<<70>>), Some(<<69>>), Some(<<68>>), Some(<<67>>), TxtB, TxtA>>}

\* line k of invoice i holding the basket b
BasketLine(i, b, k) ==
    Row(Some(Digits(i)), b[k], Some(1), Noon, Some(100 + k), Some(i), TxtUK)

\* n invoices, all but the last of basket b1, the last of basket b2
AffinityFile(n, b1, b2) ==
    LET head == (n - 1) * Len(b1)
    IN  Table(AllCols,
              [j \in 1..(head + Len(b2)) |->
                  IF j <= head
                  THEN BasketLine(((j - 1) \div Len(b1)) + 1, b1, ((j - 1) % Len(b1)) + 1)
                  ELSE BasketLine(n, b2, j - head)])

ExtraInvoices == 1

\* files of that shape for n around the threshold of query 9
AffinityFiles ==
    {AffinityFile(n, b1, b2) :
        n \in MinTogether..(MinTogether + ExtraInvoices), b1 \in Baskets, b2 \in Baskets}

ExtraLines == 1

\* n lines of n invoices, customers, products, countries and months, for n around
\* the display limits
WideFile(n) ==
    Table(AllCols,
          [i \in 1..n |->
              Row(Some(Digits(i)), Some(<<64 + i>>), Some(1),
                  Some(<<2022 + ((i - 1) \div 12), ((i - 1) % 12) + 1, 1, 0>>),
                  Some(100 + (i % 3)), Some(i), Some(<<64 + i>>))])

WideFiles ==
    {WideFile(n) : n \in (DefaultLimit..(DefaultLimit + ExtraLines))
                         \cup (CustomerLimit..(CustomerLimit + ExtraLines))}

\* the short files run on the engine as observed, the long ones on both
InitData ==
    \/ InitWith(FilesOver(CleanerLines) \cup FilesOver(ChurnLines), {SqliteTies})
    \/ InitWith(AffinityFiles \cup WideFiles, TieOrders)

NextData ==
    \/ Loader
    \/ Cleaner
    \/ StoreBuilder
    \/ RunQuery
    \/ Close

SpecData == InitData /\ [][NextData]_vars

----------------------------------------------------------------------------
(* Claims *)

\* whether the script of this run got past the cleaning
Cleaned == pc \in {"store", "query", "close", "done"}

\* the condition of C1 on one line of the input file
C1_Keeps(r) ==
    LET inv == IF r.InvoiceNo = Null THEN <<110, 97, 110>> ELSE r.InvoiceNo[1]
    IN  /\ ~(Len(inv) >= 1 /\ inv[1] = 67)
        /\ r.CustomerID # Null
        /\ r.Quantity # Null /\ r.Quantity[1] > 0
        /\ r.UnitPrice # Null /\ r.UnitPrice[1] > 0

\* C1: after the cleaning, the lines of the dataframe are, in order, exactly the
\* lines of the input file whose invoice text does not start with 'C', whose
\* customer is present, and whose quantity and unit price are positive; the
\* count printed is the number of the others.
C1_CleanerKeepsExactly ==
    Cleaned =>
        /\ [i \in DOMAIN df.rows |-> [c \in csv.cols |-> df.rows[i][c]]]
              = SelectSeq(csv.rows, C1_Keeps)
        /\ removed = Len(csv.rows) - Len(SelectSeq(csv.rows, C1_Keeps))

\* a cleaning that kept one line and dropped another
C1_Witness ==
    /\ Cleaned
    /\ Len(csv.rows) = 2
    /\ Len(df.rows) = 1
    /\ csv.rows[1].Quantity = Some(0)

\* the lines of the transactions table of the store
StoreRows == dbfile.tables["transactions"].rows

\* C4: a successful query of n rows prints all n rows and no notice when n is
\* at most its limit (20, and 30 for query 4), and the first limit rows with
\* the total n otherwise; the export file it names holds all n rows, in order.
C4_DisplayAndExport ==
    \A q \in Queries :
        returned[q].state = "rows" =>
            LET rows == returned[q].rows
                n == Len(rows)
                limit == IF q = 4 THEN 30 ELSE 20
            IN  /\ console[q].kind = "result"
                /\ n <= limit =>
                      /\ console[q].shown.notice = Null
                      /\ console[q].shown.rows = rows
                /\ n > limit =>
                      /\ console[q].shown.notice = Some(n)
                      /\ console[q].shown.rows = [i \in 1..limit |-> rows[i]]
                /\ exports[console[q].saved] = [exists |-> TRUE, rows |-> rows]

\* a result longer than its limit was printed and exported
C4_Witness ==
    /\ pc = "done"
    /\ returned[5].state = "rows"
    /\ Len(returned[5].rows) = 21
    /\ Len(console[5].shown.rows) = 20
    /\ Len(exports[console[5].saved].rows) = 21

\* the customers of the transactions table
C7_Customers == {StoreRows[i].CustomerID : i \in DOMAIN StoreRows}

\* whether every purchase is at a known number of whole days before 2024-12-31
C7_AllWholeDays ==
    \A i \in DOMAIN StoreRows : \E w \in WholeDays : StoreRows[i].InvoiceDate = Some(w.date)

\* the whole days from the last purchase of customer c to 2024-12-31
C7_DaysSince(c) ==
    LET ds == {w.days : w \in {v \in WholeDays : \E i \in DOMAIN StoreRows :
                                  /\ StoreRows[i].CustomerID = c
                                  /\ StoreRows[i].InvoiceDate = Some(v.date)}}
    IN  CHOOSE d \in ds : \A e \in ds : d <= e

\* the bucket C7 gives a number of days
C7_Bucket(days) ==
    IF days <= 30 THEN "Active"
    ELSE IF days <= 60 THEN "At Risk"
    ELSE IF days <= 90 THEN "Churning"
    ELSE "Churned"

\* the customers query 10 reports under a label
C7_Reported(label) ==
    LET rows == returned[10].rows
        at == {i \in DOMAIN rows : rows[i].Customer_Status = label}
    IN  IF at = {} THEN 0 ELSE rows[CHOOSE i \in at : TRUE].Number_of_Customers

\* C7: query 10 reports each of the four buckets at most once, the customers
\* it counts add up to the customers of the table, and when every purchase is
\* a whole number of days before 2024-12-31 each bucket counts the customers
\* whose last purchase is at most 30 (Active), 60 (At Risk), 90 (Churning) or
\* more (Churned) days before it: 30 days is Active, 31 days At Risk.
C7_ChurnBuckets ==
    returned[10].state = "rows" =>
        LET rows == returned[10].rows
            labels == {"Active", "At Risk", "Churning", "Churned"}
        IN  /\ \A i \in DOMAIN rows : rows[i].Customer_Status \in labels
            /\ \A i, j \in DOMAIN rows :
                  rows[i].Customer_Status = rows[j].Customer_Status => i = j
            /\ SumSeq([i \in DOMAIN rows |-> rows[i].Number_of_Customers])
                  = Cardinality(C7_Customers)
            /\ C7_AllWholeDays =>
                  \A l \in labels :
                      C7_Reported(l)
                        = Cardinality({c \in C7_Customers : C7_Bucket(C7_DaysSince(c)) = l})

\* one customer at exactly 30 days and one at 91 were reported Active and Churned
C7_Witness ==
    /\ returned[10].state = "rows"
    /\ Len(StoreRows) = 2
    /\ StoreRows[1].InvoiceDate = Some(<<2024, 12, 1, 0>>)
    /\ StoreRows[2].InvoiceDate = Some(<<2024, 10, 1, 0>>)
    /\ StoreRows[2].CustomerID = Some(2)
    /\ C7_Reported("Active") = 1
    /\ C7_Reported("Churned") = 1

\* the products of the transactions table
C8_Products == {StoreRows[i].Description : i \in DOMAIN StoreRows} \ {Null}

\* the invoices that hold a line of product a and a line of product b
C8_Invoices(a, b) ==
    ({StoreRows[i].InvoiceNo : i \in {k \in DOMAIN StoreRows : StoreRows[k].Description = a}}
        \cap {StoreRows[i].InvoiceNo : i \in {k \in DOMAIN StoreRows : StoreRows[k].Description = b}})
    \ {Null}

\* the pairs query 9 reports, as <<Product_A, Product_B>>
C8_ReportedPairs ==
    {<<returned[9].rows[i].Product_A, returned[9].rows[i].Product_B>> : i \in DOMAIN returned[9].rows}

\* C8 as stated: every pair of products a < b that share an invoice is
\* reported, with the number of invoices that hold both; no pair is reported in
\* both orders and no product with itself.
C8_EveryPairReported ==
    returned[9].state = "rows" =>
        LET rows == returned[9].rows
        IN  /\ \A a, b \in C8_Products :
                  (SeqLess(a[1], b[1]) /\ C8_Invoices(a, b) # {}) =>
                      \E i \in DOMAIN rows :
                          /\ rows[i].Product_A = a
                          /\ rows[i].Product_B = b
                          /\ rows[i].Times_Bought_Together = Cardinality(C8_Invoices(a, b))
            /\ \A p \in C8_ReportedPairs : p[1] # p[2] /\ <<p[2], p[1]>> \notin C8_ReportedPairs

\* C8 as amended: every row query 9 reports is a pair a < b with the number of
\* invoices that hold both, which is at least 10; no pair is reported twice, in
\* both orders, or with itself; at most 20 rows are reported, and a pair that
\* shares 10 invoices or more is missing only when 20 rows are.
C8_ReportedPairsCounted ==
    returned[9].state = "rows" =>
        LET rows == returned[9].rows
        IN  /\ \A i \in DOMAIN rows :
                  /\ SeqLess(rows[i].Product_A[1], rows[i].Product_B[1])
                  /\ rows[i].Times_Bought_Together
                        = Cardinality(C8_Invoices(rows[i].Product_A, rows[i].Product_B))
                  /\ rows[i].Times_Bought_Together >= 10
            /\ Cardinality(C8_ReportedPairs) = Len(rows)
            /\ \A p \in C8_ReportedPairs : p[1] # p[2] /\ <<p[2], p[1]>> \notin C8_ReportedPairs
            /\ Len(rows) <= 20
            /\ Len(rows) < 20 =>
                  \A a, b \in C8_Products :
                      (SeqLess(a[1], b[1]) /\ Cardinality(C8_Invoices(a, b)) >= 10) =>
                          <<a, b>> \in C8_ReportedPairs

\* a pair of 10 invoices was reported beside one of 9 that was not, out of
\* invoices that hold a product on two lines
C8_Witness ==
    /\ returned[9].state = "rows"
    /\ <<TxtA, TxtB>> \in C8_ReportedPairs
    /\ Cardinality(C8_Invoices(TxtA, TxtB)) = 10
    /\ Cardinality(C8_Invoices(TxtA, TxtAB)) = 9
    /\ <<TxtA, TxtAB>> \notin C8_ReportedPairs
    /\ Cardinality({i \in DOMAIN StoreRows : StoreRows[i].Description = TxtB}) > 10

\* the export file of query q
ExportOf(q) == exports[CsvFilename(QueryNames[q])]

\* the queries attempted so far in this run
Attempted == {attempts[i] : i \in DOMAIN attempts}

\* C2: a query that fails is caught inside run_query, which prints an error
\* and returns None; the report is not aborted by it: every query before the
\* current one has been attempted, a query that succeeded has its export file
\* holding its result, and a finished run has attempted all ten queries.
C2_FailureIsolation ==
    /\ \A q \in Attempted :
          /\ returned[q] # NotRun
          /\ returned[q] = None => console[q].kind = "error"
          /\ returned[q] # None => ExportOf(q) = [exists |-> TRUE, rows |-> returned[q].rows]
    /\ (\E q \in Attempted : returned[q] = None) =>
          /\ pc \in {"query", "close", "done"}
          /\ error = "none"
          /\ Attempted = 1..(qi - 1)
    /\ pc = "done" => \A q \in 1..10 : returned[q] # NotRun

\* queries 3, 5 and 9 failed on a table without the columns they name, and
\* the queries after them succeeded and wrote their files
C2_Witness ==
    /\ pc = "done"
    /\ returned[3] = None /\ returned[5] = None /\ returned[9] = None
    /\ \A q \in {4, 6, 7, 8, 10} : returned[q] # None /\ ExportOf(q).exists
    /\ envFaults = atStart.faults

\* C3 as stated: after a run, a query that failed (run_query returned None)
\* has no export file of its name on disk, also when an earlier run in the
\* same directory wrote one.
C3_NoExportAfterFailure ==
    pc = "done" => \A q \in 1..10 : returned[q] = None => ~ExportOf(q).exists

\* C5: once the Store Builder is through, the transactions table holds the
\* lines of the cleaned table, as many and the same, whatever the store file
\* held when the run started.
C5_StoreHoldsCleaned ==
    pc \in {"query", "close", "done"} =>
        /\ dbfile.exists
        /\ DOMAIN dbfile.tables = {"transactions"}
        /\ Len(StoreRows) = Len(df.rows)
        /\ StoreRows = df.rows

\* the store was built over one an earlier run left with other lines
C5_Witness ==
    /\ pc = "query"
    /\ atStart.dbfile.exists
    /\ "transactions" \in DOMAIN atStart.dbfile.tables
    /\ Len(atStart.dbfile.tables["transactions"].rows) # Len(df.rows)
    /\ Len(atStart.dbfile.tables["transactions"].rows) > 0
    /\ Len(df.rows) > 0

\* whether this run and the one before it both finished, on the same input
\* file, without an I/O fault
TwiceOnSameInput ==
    /\ pc = "done"
    /\ prev.ran
    /\ prev.pc = "done"
    /\ prev.csv = csv
    /\ ~prev.faulted
    /\ envFaults = atStart.faults

\* C6: when the pipeline has run twice in succession on the same input, the
\* second run from the files the first left, the store and the export files
\* after the second run are those after the first.
C6_Idempotent ==
    TwiceOnSameInput => dbfile = prev.dbfile /\ exports = prev.exports

\* a second run on the same input finished, with export files on disk
C6_Witness ==
    /\ TwiceOnSameInput
    /\ Len(StoreRows) > 0
    /\ \E q \in Queries : ExportOf(q).exists /\ Len(ExportOf(q).rows) > 0

\* C9: once the Loader, the Cleaner and the Store Builder are through, the
\* queries are attempted once each in the order 1 to 10 whichever of them
\* fail, on the one connection opened before the first of them, which is open
\* at every attempt; a run that has attempted a query is never aborted, and at
\* its end all ten have been attempted and the connection closed once.
C9_OrderAndConnection ==
    /\ pc \in {"query", "close"} =>
          /\ attempts = [i \in 1..(qi - 1) |-> i]
          /\ conn = "open" /\ opens = 1 /\ closes = 0
          /\ error = "none"
    /\ pc = "query" => qi \in 1..10
    /\ pc = "close" => qi = 11
    /\ pc = "done" =>
          /\ attempts = <<1, 2, 3, 4, 5, 6, 7, 8, 9, 10>>
          /\ conn = "closed" /\ opens = 1 /\ closes = 1
    /\ attempts # <<>> => pc \in {"query", "close", "done"}

\* a run ended with the connection closed after ten attempts of which some failed
C9_Witness ==
    /\ pc = "done"
    /\ Len(attempts) = 10
    /\ closes = 1
    /\ \E q \in Queries : returned[q] = None
    /\ \E q \in Queries : returned[q] # None

\* C10: a run in which the Loader or the Store Builder has failed is aborted:
\* it has attempted no query, printed and returned nothing for any, and the
\* export files are those there were when it started.
C10_FatalTier ==
    error \in {"load", "store"} =>
        /\ pc = "aborted"
        /\ attempts = <<>>
        /\ \A q \in Queries : returned[q] = NotRun /\ console[q] = NotRun
        /\ exports = atStart.exports
        /\ closes = 0

\* the Store Builder failed in a directory that holds export files
C10_Witness ==
    /\ error = "store"
    /\ pc = "aborted"
    /\ \E q \in Queries : ExportOf(q).exists

====
